---------------------------- MODULE Spec2Model ----------------------------
(***************************************************************************)
(* Model of src/src/main.js: the main script of the 3D showcase scene.     *)
(*                                                                         *)
(* Numbers.  The script computes with IEEE doubles.  The model computes    *)
(* with fixed-point integers: a scale is a whole number of grid units (one *)
(* unit is 0.1 in the scene specifications, and stands for one unit in the *)
(* last place of a double in the easing specification), an arithmetic      *)
(* result is rounded to the nearest grid point, ties to the even one, as   *)
(* IEEE arithmetic rounds.  Angles are whole thousandths of a radian,      *)
(* normalized mouse positions whole thousandths of the canvas width.       *)
(***************************************************************************)
EXTENDS Integers, Sequences, FiniteSets

VARIABLES
    pc,         \* position of the module's top-level code (it awaits at line 193)
    hdri,       \* state of the promise returned by loadHDRI
    env,        \* manager.scene.environment has been set
    load,       \* per model: state of the promise returned by loadModelSafe
    scene,      \* manager.scene.children, in the order of scene.add
    userData,   \* per object: obj.userData (the interactive object record)
    scale,      \* per object: obj.scale.x (the scale is always uniform)
    rot,        \* per object: angle turned about its own axis, modulo TurnUnits
    modals,     \* the panels openModal has opened so far
    navigated,  \* window.location.href was assigned: the page is left
    logged,     \* rejections that reached a handler and were logged
    unhandled,  \* rejections that no handler caught
    audio,      \* state of bgAudio's play() promises
    listener,   \* the one-shot click listener is registered on window
    playCalls,  \* number of bgAudio.play() calls made
    clicks,     \* number of click events dispatched on window
    mouseX,     \* last normalized mouse X recorded by the mousemove listener
    yaw         \* camera yaw (euler.y of controls.object, order YXZ)

sceneVars == <<pc, hdri, env, load, scene, userData, scale, rot, modals,
               navigated, logged, unhandled>>
inputVars == <<audio, listener, playCalls, clicks, mouseX, yaw>>
vars == <<pc, hdri, env, load, scene, userData, scale, rot, modals,
          navigated, logged, unhandled, audio, listener, playCalls, clicks,
          mouseX, yaw>>

(***************************************************************************)
(* Bounds of the model.                                                    *)
(***************************************************************************)
\* orientation is tracked modulo this many angle units
TurnUnits == 3
\* frame times passed to the tick: 1..MaxDelta
MaxDelta == 2
\* scales and targets of the easing specification: 0..MaxScale grid units
MaxScale == 30
\* window clicks are counted up to this many
MaxClicks == 3
\* the camera yaw is followed within -MaxYaw..MaxYaw
MaxYaw == 100

Undefined == 0 - 1

(***************************************************************************)
(* The scene graph.  A loaded GLTF scene is a root group with one mesh     *)
(* below it.  Models holds the first of the five loadInteractiveModel      *)
(* calls; the warehouse is the load that runs beside it.                   *)
(***************************************************************************)
Models == {"pressure"}
AllModels == Models \cup {"warehouse"}

Root(m) == <<m, "root">>
Mesh(m) == <<m, "mesh">>
Sphere == <<"sphere", "mesh">>
Nodes(m) == {Root(m), Mesh(m)}
Objects == UNION {Nodes(m) : m \in AllModels} \cup {Sphere}

\* obj.isMesh
IsMesh(o) == o[2] = "mesh"

\* the objects obj.traverse visits: obj itself and its descendants
Descendants(o) == IF o[2] = "root" THEN {o, <<o[1], "mesh">>} ELSE {o}

\* the objects manager.scene.traverse visits
InScene == UNION {Descendants(scene[i]) : i \in 1..Len(scene)}

Deltas == 1..MaxDelta


(***************************************************************************)
(* Scale easing, line 292: s + (t - s) * 0.1, rounded to the grid.         *)
(***************************************************************************)
\* the coefficient 0.1 is 1 / EaseDen
EaseDen == 10

\* n / d rounded to the nearest integer, ties to the even one (n >= 0, d > 0)
RoundHalfEven(n, d) ==
    LET q == n \div d
        r == n % d
    IN  IF 2 * r < d THEN q
        ELSE IF 2 * r > d THEN q + 1
        ELSE IF q % 2 = 0 THEN q ELSE q + 1

\* a mutant: the result is cut down to the grid instead of rounded
EaseFloor(s, t) == (EaseDen * s + (t - s)) \div EaseDen

\* a mutant: the coefficient is 2 instead of 0.1
EaseOvershoot(s, t) == s + (t - s) * 2

Ease(s, t) == RoundHalfEven(EaseDen * s + (t - s), EaseDen)

\* obj.rotateOnAxis(axis, angle): the angle turned about the object's axis
RotateOnAxis(r, angle) == (r + angle) % TurnUnits

(***************************************************************************)
(* The interactive object record, obj.userData.                            *)
(***************************************************************************)
NoScale == [base |-> Undefined, hover |-> Undefined, click |-> Undefined]
NoRotation == [axis |-> "none", speed |-> Undefined]

\* userData of an object nothing was attached to
NoData ==
    [interactable |-> FALSE, scale |-> NoScale, targetScale |-> Undefined,
     rotationAxis |-> "none", rotationSpeed |-> Undefined,
     callbacks |-> "none", modalId |-> ""]

\* a mutant: the click target without the fallback to hover
ClickTargetNoFallback(sc) == sc.click

\* scale.click ?? scale.hover, line 108
ClickTarget(sc) == IF sc.click # Undefined THEN sc.click ELSE sc.hover

\* a mutant: the record is left without its targetScale
MakeInteractableNoTarget(old, modalId, opts) ==
    [old EXCEPT !.interactable = TRUE,
                !.scale = opts.scale,
                !.callbacks = "model",
                !.modalId = modalId]

\* makeInteractable, lines 76-110: what it leaves in obj.userData
MakeInteractable(old, modalId, opts) ==
    [old EXCEPT !.interactable = TRUE,
                !.scale = opts.scale,
                !.targetScale = opts.scale.base,
                !.rotationAxis =
                    IF opts.rotation.axis # "none" THEN opts.rotation.axis ELSE @,
                !.rotationSpeed =
                    IF opts.rotation.axis # "none" THEN opts.rotation.speed ELSE @,
                !.callbacks = "model",
                !.modalId = modalId]

\* the objects applyInteractionRecursively makes interactable
InteractionTargets(obj) == {obj} \cup {c \in Descendants(obj) : IsMesh(c)}

\* applyInteractionRecursively, lines 112-120: the new userData
ApplyInteractionRecursively(ud, obj, modalId, opts) ==
    [o \in Objects |->
        IF o \in InteractionTargets(obj)
        THEN MakeInteractable(ud[o], modalId, opts)
        ELSE ud[o]]

\* the scales makeInteractable sets (obj.scale.setScalar(scale.base), line 89)
ApplyInteractionScale(sc, obj, opts) ==
    [o \in Objects |->
        IF o \in InteractionTargets(obj) THEN opts.scale.base ELSE sc[o]]

\* the arguments of the loadInteractiveModel call of lines 197-204
OptionsOf(m) ==
    [modalId |-> "text-1",
     scale |-> [base |-> 12, hover |-> 18, click |-> 20],
     rotation |-> [axis |-> "y", speed |-> 10]]

\* the sphere's record, lines 269-276
SphereBase == 10
SphereHover == 15
SphereData ==
    [NoData EXCEPT !.interactable = TRUE,
                   !.targetScale = SphereBase,
                   !.callbacks = "sphere"]

\* scale of a new Object3D (1), and of the warehouse root (20, line 245)
DefaultScale == 10
WarehouseScale == 200

(***************************************************************************)
(* The state when the module's top-level code first yields: it has run     *)
(* lines 13-159 and awaits loadHDRI at line 193.  mouseX is 0.5 (line 138) *)
(* and bgAudio.play() has been called once (line 29): its promise is       *)
(* pending when playback is allowed, and already rejected ("blocked") when *)
(* the browser blocks autoplay.                                            *)
(***************************************************************************)
Init ==
    /\ pc = "hdri"
    /\ hdri = "pending"
    /\ env = FALSE
    /\ load = [m \in AllModels |-> "idle"]
    /\ scene = <<>>
    /\ userData = [o \in Objects |-> NoData]
    /\ scale = [o \in Objects |-> DefaultScale]
    /\ rot = [o \in Objects |-> 0]
    /\ modals = {}
    /\ navigated = FALSE
    /\ logged = {}
    /\ unhandled = {}
    /\ audio \in {"pending", "blocked"}
    /\ listener = FALSE
    /\ playCalls = 1
    /\ clicks = 0
    /\ mouseX = 500
    /\ yaw = 0

(***************************************************************************)
(* The top-level code from line 193 on.  It is one job of the event loop   *)
(* once loadHDRI has resolved: no handler runs between its steps.          *)
(***************************************************************************)
\* loadHDRI resolves (lines 62-66) and the await of line 193 returns
HdriResolved ==
    /\ pc = "hdri" /\ hdri = "pending"
    /\ hdri' = "resolved"
    /\ pc' = "env"
    /\ UNCHANGED <<env, load, scene, userData, scale, rot, modals, navigated,
                   logged, unhandled, inputVars>>

\* loadHDRI rejects (line 69): the await of line 193 throws, nothing catches it,
\* and the evaluation of the module ends there
HdriRejected ==
    /\ pc = "hdri" /\ hdri = "pending"
    /\ hdri' = "rejected"
    /\ pc' = "failed"
    /\ unhandled' = unhandled \cup {"hdri"}
    /\ UNCHANGED <<env, load, scene, userData, scale, rot, modals, navigated,
                   logged, inputVars>>

\* line 195
SetEnvironment ==
    /\ pc = "env"
    /\ env' = TRUE
    /\ pc' = "loads"
    /\ UNCHANGED <<hdri, load, scene, userData, scale, rot, modals, navigated,
                   logged, unhandled, inputVars>>

\* lines 197-258: every call runs up to its loadModelSafe and returns a promise
StartLoads ==
    /\ pc = "loads"
    /\ load' = [m \in AllModels |-> "pending"]
    /\ pc' = "sphere"
    /\ UNCHANGED <<hdri, env, scene, userData, scale, rot, modals, navigated,
                   logged, unhandled, inputVars>>

\* lines 263-278
AddSphere ==
    /\ pc = "sphere"
    /\ userData' = [userData EXCEPT ![Sphere] = SphereData]
    /\ scene' = Append(scene, Sphere)
    /\ pc' = "start"
    /\ UNCHANGED <<hdri, env, load, scale, rot, modals, navigated, logged,
                   unhandled, inputVars>>

\* lines 282-299: the tick is installed and manager.start() called
StartManager ==
    /\ pc = "start"
    /\ pc' = "running"
    /\ UNCHANGED <<hdri, env, load, scene, userData, scale, rot, modals,
                   navigated, logged, unhandled, inputVars>>

\* the event loop is between jobs: handlers and promise reactions may run
Idle == pc \in {"hdri", "running", "failed"} /\ ~navigated

(***************************************************************************)
(* Model loads.                                                            *)
(***************************************************************************)
\* loadInteractiveModel after its await, lines 173-188
InteractiveLoaded(m) ==
    /\ scale' = ApplyInteractionScale(
                    [scale EXCEPT ![Root(m)] = OptionsOf(m).scale.base],
                    Root(m), OptionsOf(m))
    /\ userData' = ApplyInteractionRecursively(
                    userData, Root(m), OptionsOf(m).modalId,
                    [scale |-> OptionsOf(m).scale,
                     rotation |-> OptionsOf(m).rotation])
    /\ scene' = Append(scene, Root(m))

\* the warehouse's then-handler, lines 244-257
WarehouseLoaded(m) ==
    /\ scale' = [scale EXCEPT ![Root(m)] = WarehouseScale]
    /\ scene' = Append(scene, Root(m))
    /\ UNCHANGED userData

\* loadModelSafe resolves (line 309) and the code waiting for it runs
LoadResolved(m) ==
    /\ Idle /\ load[m] = "pending"
    /\ load' = [load EXCEPT ![m] = "resolved"]
    /\ IF m \in Models THEN InteractiveLoaded(m) ELSE WarehouseLoaded(m)
    /\ UNCHANGED <<pc, hdri, env, rot, modals, navigated, logged, unhandled,
                   inputVars>>

\* loadModelSafe rejects (line 311).  The warehouse's promise has a catch
\* (line 258); the promise of a loadInteractiveModel call has no handler.
LoadRejected(m) ==
    /\ Idle /\ load[m] = "pending"
    /\ load' = [load EXCEPT ![m] = "rejected"]
    /\ IF m \in Models
       THEN unhandled' = unhandled \cup {m} /\ UNCHANGED logged
       ELSE logged' = logged \cup {m} /\ UNCHANGED unhandled
    /\ UNCHANGED <<pc, hdri, env, scene, userData, scale, rot, modals,
                   navigated, inputVars>>

(***************************************************************************)
(* Pointer events, lines 124-128: the pointer helper hands an object of    *)
(* the scene to the handler, which calls the callback in its userData, if  *)
(* there is one (optional chaining).                                       *)
(***************************************************************************)
\* a mutant: hovering sets the current scale itself
OnHoverEnterSnap(o) ==
    /\ Idle /\ o \in InScene
    /\ userData[o].callbacks = "model"
    /\ userData' = [userData EXCEPT ![o].targetScale = userData[o].scale.hover]
    /\ scale' = [scale EXCEPT ![o] = userData[o].scale.hover]
    /\ UNCHANGED <<pc, hdri, env, load, scene, rot, modals, navigated,
                   logged, unhandled, inputVars>>

\* onHoverEnter, lines 98-100 (a model's) and line 274 (the sphere's)
OnHoverEnter(o) ==
    /\ Idle /\ o \in InScene
    /\ userData' =
         IF userData[o].callbacks = "model"
         THEN [userData EXCEPT ![o].targetScale = userData[o].scale.hover]
         ELSE IF userData[o].callbacks = "sphere"
         THEN [userData EXCEPT ![o].targetScale = SphereHover]
         ELSE userData
    /\ UNCHANGED <<pc, hdri, env, load, scene, scale, rot, modals, navigated,
                   logged, unhandled, inputVars>>

\* onHoverExit, lines 102-104 (a model's) and line 275 (the sphere's)
OnHoverExit(o) ==
    /\ Idle /\ o \in InScene
    /\ userData' =
         IF userData[o].callbacks = "model"
         THEN [userData EXCEPT ![o].targetScale = userData[o].scale.base]
         ELSE IF userData[o].callbacks = "sphere"
         THEN [userData EXCEPT ![o].targetScale = SphereBase]
         ELSE userData
    /\ UNCHANGED <<pc, hdri, env, load, scene, scale, rot, modals, navigated,
                   logged, unhandled, inputVars>>

\* openModal(obj, modalId) of modal.js: the panel modalId is opened
OpenModal(opened, modalId) == opened \cup {modalId}

\* onClick, lines 106-109 (a model's) and line 276 (the sphere's)
OnClick(o) ==
    /\ Idle /\ o \in InScene
    /\ IF userData[o].callbacks = "model"
       THEN /\ modals' = IF userData[o].modalId # ""
                         THEN OpenModal(modals, userData[o].modalId)
                         ELSE modals
            /\ userData' = [userData EXCEPT
                              ![o].targetScale = ClickTarget(userData[o].scale)]
            /\ UNCHANGED navigated
       ELSE IF userData[o].callbacks = "sphere"
       THEN navigated' = TRUE /\ UNCHANGED <<modals, userData>>
       ELSE UNCHANGED <<modals, userData, navigated>>
    /\ UNCHANGED <<pc, hdri, env, load, scene, scale, rot, logged, unhandled,
                   inputVars>>

(***************************************************************************)
(* The per-frame tick, lines 284-296.                                      *)
(***************************************************************************)
\* lines 286-288: the orientation of every object of the scene after a tick
TickRotation(delta) ==
    [o \in Objects |->
        IF /\ o \in InScene
           /\ userData[o].rotationAxis # "none"
           /\ userData[o].rotationSpeed # Undefined
        THEN RotateOnAxis(rot[o], userData[o].rotationSpeed * delta)
        ELSE rot[o]]

\* lines 289-293: the scale of every object of the scene after a tick
TickScale ==
    [o \in Objects |->
        IF o \in InScene /\ userData[o].targetScale # Undefined
        THEN Ease(scale[o], userData[o].targetScale)
        ELSE scale[o]]

Tick(delta) ==
    /\ pc = "running" /\ ~navigated
    /\ rot' = TickRotation(delta)
    /\ scale' = TickScale
    /\ UNCHANGED <<pc, hdri, env, load, scene, userData, modals, navigated,
                   logged, unhandled, inputVars>>

(***************************************************************************)
(* The scene: setup, loads, pointer events and ticks.                      *)
(***************************************************************************)
Next ==
    \/ HdriResolved
    \/ HdriRejected
    \/ SetEnvironment
    \/ StartLoads
    \/ AddSphere
    \/ StartManager
    \/ \E m \in AllModels : LoadResolved(m)
    \/ \E m \in AllModels : LoadRejected(m)
    \/ \E o \in Objects : OnHoverEnter(o)
    \/ \E o \in Objects : OnHoverExit(o)
    \/ \E o \in Objects : OnClick(o)
    \/ \E delta \in Deltas : Tick(delta)

Spec == Init /\ [][Next]_vars

(***************************************************************************)
(* Audio, lines 25-31.                                                     *)
(***************************************************************************)
\* the catch reaction of a play() that autoplay blocked is still queued; it
\* runs before the event loop dispatches any event
CatchQueued == audio = "blocked" /\ ~listener /\ playCalls = 1

\* the catch handler of line 29 runs: it registers the click listener (line 30)
AudioRejected ==
    /\ \/ CatchQueued /\ audio' = "blocked"
       \/ audio = "pending" /\ audio' = "errored"
    /\ listener' = TRUE
    /\ UNCHANGED <<sceneVars, playCalls, clicks, mouseX, yaw>>

\* a play() promise resolves: playback has started
AudioResolved ==
    /\ audio \in {"pending", "retrying"}
    /\ audio' = "playing"
    /\ UNCHANGED <<sceneVars, listener, playCalls, clicks, mouseX, yaw>>

\* the play() called by the click listener rejects: the listener ignores it
RetryRejected ==
    /\ audio = "retrying"
    /\ audio' = "failed"
    /\ UNCHANGED <<sceneVars, listener, playCalls, clicks, mouseX, yaw>>

\* a mutant: the listener is registered without once: true
WindowClickNotOnce ==
    /\ ~CatchQueued /\ clicks < MaxClicks
    /\ clicks' = clicks + 1
    /\ IF listener
       THEN playCalls' = playCalls + 1 /\ audio' = "retrying"
       ELSE UNCHANGED <<playCalls, audio>>
    /\ UNCHANGED <<sceneVars, listener, mouseX, yaw>>

\* a click event on window: the listener of line 30, if registered, calls
\* play() and is removed (once: true)
WindowClick ==
    /\ ~CatchQueued /\ clicks < MaxClicks
    /\ clicks' = clicks + 1
    /\ IF listener
       THEN playCalls' = playCalls + 1 /\ audio' = "retrying" /\ listener' = FALSE
       ELSE UNCHANGED <<playCalls, audio, listener>>
    /\ UNCHANGED <<sceneVars, mouseX, yaw>>

(***************************************************************************)
(* Edge pan, lines 138-154.                                                *)
(***************************************************************************)
edgeMargin == 50
panSpeed == 20

\* the normalized mouse positions the model moves the mouse to
MouseXs == {0, edgeMargin - 1, edgeMargin, edgeMargin + 1, 500,
            1000 - edgeMargin - 1, 1000 - edgeMargin, 1000 - edgeMargin + 1,
            1000}

\* the mousemove listener, lines 139-142
MouseMove(x) ==
    /\ ~CatchQueued
    /\ mouseX' = x
    /\ UNCHANGED <<sceneVars, audio, listener, playCalls, clicks, yaw>>

\* a mutant: the margin's boundary counts as inside the margin
PanLeftInclusive(x) == x <= edgeMargin

\* the test of line 151
PanLeft(x) == x < edgeMargin

\* the test of line 152
PanRight(x) == x > 1000 - edgeMargin

\* lines 151-152: euler.y after the two tests
EdgePan(y, x) ==
    LET y1 == IF PanLeft(x) THEN y + panSpeed ELSE y
    IN  IF PanRight(x) THEN y1 - panSpeed ELSE y1

\* the wrapped controls.update, lines 148-154.  originalUpdate turns nothing:
\* rollSpeed is 0 (line 135).
ControlsUpdate ==
    /\ ~CatchQueued
    /\ EdgePan(yaw, mouseX) \in (0 - MaxYaw)..MaxYaw
    /\ yaw' = EdgePan(yaw, mouseX)
    /\ UNCHANGED <<sceneVars, audio, listener, playCalls, clicks, mouseX>>

(***************************************************************************)
(* The page's input: audio, mouse and camera controls.                     *)
(***************************************************************************)
InputNext ==
    \/ AudioRejected
    \/ AudioResolved
    \/ RetryRejected
    \/ WindowClick
    \/ \E x \in MouseXs : MouseMove(x)
    \/ ControlsUpdate

InputSpec == Init /\ [][InputNext]_vars

(***************************************************************************)
(* makeInteractable and the tick as functions of their inputs: the state   *)
(* once the model has loaded and the warehouse has failed to, for any      *)
(* options of loadInteractiveModel and any scale and target of the mesh.   *)
(***************************************************************************)
BASE_SCALE == 13
HOVER_SCALE == 15
CLICK_SCALE == 21
NORMAL_SCALE == 20

\* the object the easing specification follows
Probe == Mesh("pressure")

ModalIds == {"", "text-1"}

ScaleOptions ==
    { \* the default of makeInteractable, line 80
      [base |-> BASE_SCALE, hover |-> HOVER_SCALE, click |-> CLICK_SCALE],
      \* the default of loadInteractiveModel, line 167
      [base |-> NORMAL_SCALE, hover |-> (NORMAL_SCALE * 11) \div 10,
       click |-> (NORMAL_SCALE * 12) \div 10],
      \* the first call's, line 201
      OptionsOf("pressure").scale,
      \* a descriptor without a click value
      [base |-> 12, hover |-> 18, click |-> Undefined] }

RotationOptions == {NoRotation, OptionsOf("pressure").rotation}

LoadedData(modalId, opts) ==
    ApplyInteractionRecursively(
        [o \in Objects |-> IF o = Sphere THEN SphereData ELSE NoData],
        Root("pressure"), modalId, opts)

LoadedScale(opts) ==
    ApplyInteractionScale([o \in Objects |-> DefaultScale], Root("pressure"), opts)

Loaded(ud, sc) ==
    /\ pc = "running"
    /\ hdri = "resolved"
    /\ env = TRUE
    /\ load = [m \in AllModels |-> IF m \in Models THEN "resolved" ELSE "rejected"]
    /\ scene = <<Sphere, Root("pressure")>>
    /\ userData = ud
    /\ scale = sc
    /\ rot = [o \in Objects |-> 0]
    /\ modals = {}
    /\ navigated = FALSE
    /\ logged = {"warehouse"}
    /\ unhandled = {}
    /\ audio = "pending"
    /\ listener = FALSE
    /\ playCalls = 1
    /\ clicks = 0
    /\ mouseX = 500
    /\ yaw = 0

MakeInit ==
    \E modalId \in ModalIds, sc \in ScaleOptions, r \in RotationOptions :
        Loaded(LoadedData(modalId, [scale |-> sc, rotation |-> r]),
               LoadedScale([scale |-> sc, rotation |-> r]))

MakeNext ==
    \/ \E o \in Objects : OnHoverEnter(o)
    \/ \E o \in Objects : OnHoverExit(o)
    \/ \E o \in Objects : OnClick(o)
    \/ \E delta \in Deltas : Tick(delta)

MakeSpec == MakeInit /\ [][MakeNext]_vars

EaseInit ==
    \E s \in 0..MaxScale, t \in 0..MaxScale :
        Loaded([LoadedData("text-1", OptionsOf("pressure"))
                    EXCEPT ![Probe].targetScale = t],
               [LoadedScale(OptionsOf("pressure")) EXCEPT ![Probe] = s])

\* no pointer event: the targets stay as they are
EaseNext == \E delta \in Deltas : Tick(delta)

\* manager.start() (line 299) runs the tick on every frame
EaseSpec == EaseInit /\ [][EaseNext]_vars /\ WF_vars(EaseNext)

(***************************************************************************)
(* Properties of the scale easing (EaseSpec).                              *)
(***************************************************************************)
Abs(x) == IF x < 0 THEN 0 - x ELSE x

\* how far the object's scale is from its target, in grid units
Dist(o) == Abs(userData[o].targetScale - scale[o])

\* the tick no longer moves the object's scale
Settled(o) == Ease(scale[o], userData[o].targetScale) = scale[o]

\* C1 as stated: with a fixed target, the distance between scale and target
\* eventually falls below any chosen epsilon > 0 and stays below it; here the
\* epsilon is one grid unit (one unit in the last place of the number).
C1_ConvergesBelowAnyEpsilon == <>[](Dist(Probe) < 1)

\* C1 as amended: with a fixed target, after finitely many ticks the distance
\* between scale and target is at most half of 1 / 0.1 = 5 grid units, and it
\* stays so on every later tick; so it falls and stays below every epsilon
\* greater than 5 grid units, not below every epsilon > 0.
C1_SettlesWithinHalfStep == <>[](Dist(Probe) <= EaseDen \div 2)

\* ticks have run and the scale rests off its target
C1_Witness ==
    /\ rot[Probe] # 0
    /\ Settled(Probe)
    /\ Dist(Probe) \in 1..(EaseDen \div 2)

\* C2: with a fixed target t, after every tick the scale of every object lies
\* between its previous value and t (inclusive): the sign of t - scale never
\* flips and |t - scale| never grows.
C2_NeverOvershoots ==
    [][\A o \in InScene :
         userData[o].targetScale # Undefined =>
           LET t == userData[o].targetScale
               s == scale[o]
               n == scale'[o]
           IN  /\ (s <= n /\ n <= t) \/ (t <= n /\ n <= s)
               /\ (t - s) * (t - n) >= 0
               /\ Abs(t - n) <= Abs(t - s)]_vars

\* ticks have run and the scale is still coming down to its target
C2_Witness ==
    /\ rot[Probe] # 0
    /\ scale[Probe] > userData[Probe].targetScale
    /\ ~Settled(Probe)

(***************************************************************************)
(* Properties of the page's input (InputSpec).                             *)
(***************************************************************************)
\* what C3 says one update adds to the yaw when the mouse is at x
ClaimedPan(x) ==
    IF x >= 0 /\ x < 50 THEN panSpeed
    ELSE IF x > 950 /\ x <= 1000 THEN 0 - panSpeed
    ELSE 0

\* C3: an update of the controls adds the pan speed to the yaw when the mouse
\* X is in [0, 0.05), subtracts it when the mouse X is in (0.95, 1], and leaves
\* the yaw alone in [0.05, 0.95], both boundaries and the initial 0.5 included;
\* the two adjustments are never both applied.
C3_EdgePanOnlyInMargin ==
    /\ [](/\ EdgePan(yaw, mouseX) = yaw + ClaimedPan(mouseX)
          /\ ~(PanLeft(mouseX) /\ PanRight(mouseX)))
    /\ [][yaw' = yaw + ClaimedPan(mouseX)]_yaw

\* the camera has panned two steps and the mouse then rests on the boundary
C3_Witness == yaw = 2 * panSpeed /\ mouseX = 1000 - edgeMargin

\* C6: play() is called a second time only by a click dispatched while the
\* listener is registered, that click removes the listener, and the listener
\* is registered only by the rejection of the initial play(); when autoplay
\* is blocked no click precedes the retry, so the retry is on the first
\* click; when the initial play() succeeds the listener is never registered
\* and no click calls play().
C6_SingleFallback ==
    /\ [](/\ playCalls \in {1, 2}
          /\ listener => playCalls = 1 /\ audio \in {"blocked", "errored"}
          /\ audio = "blocked" => clicks = 0
          /\ audio = "playing" /\ playCalls = 1 => ~listener)
    /\ [][/\ clicks' = clicks + 1 =>
               /\ playCalls' = IF listener THEN playCalls + 1 ELSE playCalls
               /\ ~listener'
          /\ playCalls' # playCalls => clicks' = clicks + 1 /\ listener
          /\ audio = "playing" => playCalls' = playCalls /\ ~listener'
          /\ playCalls = 2 => ~listener']_vars

\* the retry was made on one click and two later clicks called nothing
C6_Witness == playCalls = 2 /\ clicks = 3 /\ audio = "playing"

(***************************************************************************)
(* Properties of the scene (Spec).                                         *)
(***************************************************************************)
\* C4: every model load that rejects is caught by a handler and logged; none
\* ends as an unhandled rejection.
C4_LoadFailureCaught ==
    \A m \in AllModels :
        load[m] = "rejected" => m \in logged /\ m \notin unhandled

\* the asynchronous asset loads that failed
FailedAssets ==
    {m \in AllModels : load[m] = "rejected"}
        \cup (IF hdri = "rejected" THEN {"hdri"} ELSE {})

\* no top-level code is running and no started load is still pending
Quiet ==
    /\ pc \in {"running", "failed"}
    /\ \A m \in AllModels : load[m] # "pending"

\* C5: when a single asset load has failed, the failure is caught and logged,
\* and once the page is quiet every asset that loaded is in the scene, the
\* sphere is in the scene and manager.start() has been reached.
C5_SceneContinues ==
    Cardinality(FailedAssets) = 1 =>
        /\ FailedAssets \subseteq logged
        /\ Quiet =>
             /\ \A m \in AllModels \ FailedAssets : Root(m) \in InScene
             /\ Sphere \in InScene
             /\ pc = "running"

\* the record makeInteractable attaches is whole
RecordComplete(o, m) ==
    /\ userData[o].interactable
    /\ userData[o].scale = OptionsOf(m).scale
    /\ userData[o].targetScale # Undefined
    /\ userData[o].callbacks = "model"

\* how often an object was added to the scene
TimesAdded(o) == Cardinality({i \in 1..Len(scene) : scene[i] = o})

\* C9: the environment map is set before any model load is started; an
\* interactive model is in the scene at most once, and only with its load
\* resolved and the record of its root and of its meshes whole; and once all
\* loads have settled the models in the scene are exactly those whose load
\* resolved, in whatever order the loads completed.
C9_SetupOrdering ==
    /\ \A m \in AllModels : load[m] # "idle" => env
    /\ \A m \in Models :
         /\ TimesAdded(Root(m)) <= 1
         /\ Root(m) \in InScene =>
              /\ load[m] = "resolved"
              /\ \A o \in InteractionTargets(Root(m)) : RecordComplete(o, m)
    /\ (\A m \in AllModels : load[m] \in {"resolved", "rejected"}) =>
         {m \in AllModels : Root(m) \in InScene}
             = {m \in AllModels : load[m] = "resolved"}

\* the warehouse's load completed before the interactive model's, and a
\* pointer event and ticks have acted on the model since
C9_Witness ==
    /\ scene = <<Sphere, Root("warehouse"), Root("pressure")>>
    /\ userData[Mesh("pressure")].targetScale = OptionsOf("pressure").scale.hover
    /\ scale[Mesh("pressure")] > OptionsOf("pressure").scale.base

\* the fields of a record other than targetScale
Frozen(d) == [d EXCEPT !.targetScale = Undefined]

\* C7: for an object of the scene, a step that changes its scale or its
\* orientation (the tick) leaves its record alone; a step that changes its
\* record (a pointer callback) changes only targetScale and leaves scale and
\* orientation alone; no step takes an object out of the scene or clears the
\* flag, the descriptor or the callbacks of its record.
C7_DivisionOfMutation ==
    [][/\ (\E delta \in Deltas : Tick(delta)) =>
             userData' = userData /\ scene' = scene
       /\ (\E o \in Objects : OnHoverEnter(o) \/ OnHoverExit(o) \/ OnClick(o)) =>
             scale' = scale /\ rot' = rot /\ scene' = scene
       /\ \A o \in InScene :
            /\ scale'[o] # scale[o] \/ rot'[o] # rot[o] =>
                 userData'[o] = userData[o]
            /\ userData'[o] # userData[o] =>
                 scale'[o] = scale[o] /\ rot'[o] = rot[o]
            /\ Frozen(userData'[o]) = Frozen(userData[o])
            /\ o \in InScene']_vars

\* a click has set the mesh's target and ticks have since moved and turned it
C7_Witness ==
    /\ userData[Mesh("pressure")].targetScale = OptionsOf("pressure").scale.click
    /\ scale[Mesh("pressure")] > OptionsOf("pressure").scale.base
    /\ rot[Mesh("pressure")] # 0
    /\ "text-1" \in modals

\* the model's scales and targets are all at the configured base
AtRest(m) ==
    \A o \in Nodes(m) :
        /\ userData[o].targetScale = OptionsOf(m).scale.base
        /\ scale[o] = userData[o].targetScale

\* C10: at rest, the product of the scale factors from a model's root down to
\* its mesh is the configured base scale (scales are in units of 1 / DefaultScale).
C10_ScaleAppliedOnce ==
    \A m \in Models :
        Root(m) \in InScene /\ AtRest(m) =>
            scale[Root(m)] * scale[Mesh(m)] = OptionsOf(m).scale.base * DefaultScale

(***************************************************************************)
(* Properties of makeInteractable (MakeSpec).                              *)
(***************************************************************************)
\* the object's record was attached by makeInteractable
Made(o) == userData[o].callbacks = "model"

\* C8: the targetScale of an object made interactable is base at creation
\* and always one of its descriptor's base, hover and click values: hover
\* right after a hover-enter, base right after a hover-exit, click right after
\* a click (hover when the descriptor has no click value); a click opens the
\* modal if and only if a modalId was given; and nothing but a pointer
\* callback of the object changes its targetScale.
C8_TargetScaleValues ==
    /\ \A o \in Objects : Made(o) => userData[o].targetScale = userData[o].scale.base
    /\ [][\A o \in InScene :
            Made(o) =>
              LET d == userData[o]
                  n == userData'[o].targetScale
              IN  /\ n \in {d.scale.base, d.scale.hover, d.scale.click} \ {Undefined}
                  /\ OnHoverEnter(o) => n = d.scale.hover
                  /\ OnHoverExit(o) => n = d.scale.base
                  /\ OnClick(o) =>
                       /\ n = IF d.scale.click # Undefined
                              THEN d.scale.click ELSE d.scale.hover
                       /\ modals' = IF d.modalId # ""
                                    THEN modals \cup {d.modalId} ELSE modals
                  /\ n # d.targetScale =>
                       OnHoverEnter(o) \/ OnHoverExit(o) \/ OnClick(o)]_vars

\* an object without a click value was clicked: its modal is open, its target
\* is the hover value, and ticks have moved it off the base
C8_Witness ==
    /\ userData[Probe].scale.click = Undefined
    /\ userData[Probe].targetScale = userData[Probe].scale.hover
    /\ userData[Probe].modalId \in modals
    /\ scale[Probe] > userData[Probe].scale.base
============================================================================
